---- MODULE Spec2Model ----
(***************************************************************************)
(* A model of pyalpha.alpha.alpha.Alpha: the historical dataset it         *)
(* assembles (construct_historical_data, verify_historical_data) and the   *)
(* day loop of simulate().                                                 *)
(*                                                                         *)
(* Numbers.  Prices, scores and funds are integers here.  With integral    *)
(* inputs every value the Python code computes before the percentage is    *)
(* an integer-valued float far below 2^53, so int(x / y) is the exact      *)
(* quotient truncated toward zero.  The percentage appended to returns is  *)
(* the float nearest to an exact rational; it is kept as that rational in  *)
(* lowest terms.                                                           *)
(***************************************************************************)
EXTENDS Integers, Sequences, FiniteSets, TLC

VARIABLES
    strategy,          \* which concrete subclass of Alpha the object is
    stock_list,        \* self.stock_list
    data,              \* self.data: date -> list of HistoricalStock
    funds,             \* self.funds
    turnover,          \* self.turnover
    returns,           \* self.returns
    pc,                \* "idle", or "loop" while simulate() is in its day loop
    days,              \* simulate(): the sorted list of dates
    i,                 \* simulate(): the loop index (1-based: days[i] is the data day)
    stock_vector_old,  \* simulate(): the previous day's quantity vector, or None
    error,             \* the exception the last call raised, or "none"
    op,                \* the method the last step belongs to
    pre_repair,        \* the mapping verify_historical_data() was last given, or None
    vectors,           \* the stock_vector of every day the running call has processed
    history            \* the outcome of every simulate() call on the current dataset

vars == <<strategy, stock_list, data, funds, turnover, returns, pc, days, i,
          stock_vector_old, error, op, pre_repair, vectors, history>>

\* Python's None, and a value that is not None
None == <<>>
Some(v) == <<v>>

\* ------------------------------------------------------------------ bounds
MaxDates == 4
MaxRuns == 2
MaxFunds == 1500000

\* ------------------------------------------------------------------ inputs
InitialFunds == 1000000

Dates == 1..MaxDates
Stocks == {"A", "B"}
StockLists == {<<"A", "B">>, <<"A">>}
\* The (open, close) bars the provider can report for a stock on one day:
\* A opens at 500 and halves or holds, B halves from 500 or holds at 250.
BarsOf(stock) ==
    IF stock = "A" THEN {<<500, 250>>, <<500, 500>>}
    ELSE {<<500, 250>>, <<250, 250>>}
Strategies == {"trend", "longshort", "equal"}

\* ------------------------------------------------------------------ helpers
Abs(x) == IF x < 0 THEN -x ELSE x

Range(s) == {s[k] : k \in DOMAIN s}

RECURSIVE GCD(_, _)
GCD(a, b) == IF b = 0 THEN a ELSE GCD(b, a % b)

\* int(a / b) for b # 0: Python's true division followed by int(), which
\* truncates toward zero.
IntDiv(a, b) ==
    IF (a >= 0) = (b > 0) THEN Abs(a) \div Abs(b) ELSE -(Abs(a) \div Abs(b))

\* n * 100.0 / d for d # 0, as a rational in lowest terms with den > 0.
Percent(n, d) ==
    LET g == GCD(Abs(n), Abs(d))
        h == GCD(100, Abs(d) \div g)
        s == IF d < 0 THEN -1 ELSE 1
    IN [num |-> s * (n \div g) * (100 \div h), den |-> (Abs(d) \div g) \div h]

\* np.dot of two lists (equal lengths)
RECURSIVE Dot(_, _)
Dot(u, v) == IF u = <<>> THEN 0 ELSE Head(u) * Head(v) + Dot(Tail(u), Tail(v))

RECURSIVE Sum(_)
Sum(s) == IF s = <<>> THEN 0 ELSE Head(s) + Sum(Tail(s))

\* sorted(days): the ascending sequence of a set of dates
RECURSIVE Sorted(_)
Sorted(S) ==
    IF S = {} THEN <<>>
    ELSE LET m == CHOOSE x \in S : \A y \in S : x <= y
         IN <<m>> \o Sorted(S \ {m})

\* HistoricalStock(stock, date_str) followed by set_data(value)
HistoricalStock(stock, bar) ==
    [stock |-> stock, open |-> bar[1], close |-> bar[2], returns |-> 0]

\* ------------------------------------------------------------------ strategy
\* alpha(self, stock) of three concrete subclasses: "equal" scores every
\* record 1, "longshort" scores a record by its stock, "trend" by the
\* direction of its day.
alpha(strat, rec) ==
    IF strat = "equal" THEN 1
    ELSE IF strat = "longshort" THEN (IF rec.stock = "A" THEN 2 ELSE -1)
    ELSE IF rec.close > rec.open THEN 2
    ELSE IF rec.close < rec.open THEN -1
    ELSE 0

\* ------------------------------------------------------------------ dataset
\* What the provider can return for one stock: date -> bar, on any dates.
Rows(stock) == UNION {[D -> BarsOf(stock)] : D \in SUBSET Dates}

\* What it can return for the stocks of a list
Responses(sl) ==
    {[st \in Range(sl) |-> IF st = "A" THEN ra ELSE rb] :
        ra \in Rows("A"), rb \in Rows("B")}

\* The inner loop of construct_historical_data for one stock.
AppendStock(d, stock, rows) ==
    [dt \in DOMAIN d \cup DOMAIN rows |->
        IF dt \in DOMAIN rows
        THEN (IF dt \in DOMAIN d THEN d[dt] ELSE <<>>)
                 \o <<HistoricalStock(stock, rows[dt])>>
        ELSE d[dt]]

\* The outer loop of construct_historical_data over stock_list[k..].
RECURSIVE Assemble(_, _, _, _)
Assemble(d, sl, response, k) ==
    IF k > Len(sl) THEN d
    ELSE Assemble(AppendStock(d, sl[k], response[sl[k]]), sl, response, k + 1)

\* max(stock_count); the caller has checked the mapping is not empty
MaxLen(d) ==
    CHOOSE n \in {Len(d[dt]) : dt \in DOMAIN d} :
        \A dt \in DOMAIN d : Len(d[dt]) <= n

\* Mutant of ToDelete: to_delete is overwritten, not appended to, and holds
\* only the last short date found.
ToDeleteLastOnly(d) ==
    LET short == {dt \in DOMAIN d : Len(d[dt]) < MaxLen(d)}
    IN {dt \in short : \A other \in short : other <= dt}

\* to_delete: the dates holding fewer records than the maximum
ToDelete(d) == {dt \in DOMAIN d : Len(d[dt]) < MaxLen(d)}

\* verify_historical_data on a non-empty mapping: the mapping it leaves
verify_historical_data(d) == [dt \in DOMAIN d \ ToDelete(d) |-> d[dt]]

EmptyData == [dt \in {} |-> <<>>]

\* ------------------------------------------------------------------ simulate
\* alpha_stock: the scores of the data day's records
AlphaStock(strat, recs) == [j \in DOMAIN recs |-> alpha(strat, recs[j])]

\* Mutant of StockVector: the quantities are sized by the trading day's
\* close prices.
StockVectorClose(strat, f, data_recs, trading_recs) ==
    LET alpha_stock == AlphaStock(strat, data_recs)
        alpha_total == Sum(alpha_stock)
    IN IF alpha_total = 0
       THEN [raised |-> TRUE, stock_vector |-> <<>>]
       ELSE [raised |-> FALSE,
             stock_vector |->
                 [j \in DOMAIN alpha_stock |->
                     IntDiv(alpha_stock[j] * f,
                            alpha_total * trading_recs[j].close)]]

\* Mutant of StockVector: a zero alpha_total is guarded and buys nothing
\* instead of failing the division.
StockVectorGuarded(strat, f, data_recs, trading_recs) ==
    LET alpha_stock == AlphaStock(strat, data_recs)
        alpha_total == Sum(alpha_stock)
    IN [raised |-> FALSE,
        stock_vector |->
            [j \in DOMAIN alpha_stock |->
                IF alpha_total = 0 THEN 0
                ELSE IntDiv(alpha_stock[j] * f,
                            alpha_total * trading_recs[j].open)]]

\* stock_vector: the quantity of every stock, from the data day's scores, the
\* funds and the trading day's open prices.  Open prices are positive and the
\* list is not empty, so the division fails exactly when alpha_total is 0,
\* and then at the first stock: raised, with nothing computed.
StockVector(strat, f, data_recs, trading_recs) ==
    LET alpha_stock == AlphaStock(strat, data_recs)
        alpha_total == Sum(alpha_stock)
    IN IF alpha_total = 0
       THEN [raised |-> TRUE, stock_vector |-> <<>>]
       ELSE [raised |-> FALSE,
             stock_vector |->
                 [j \in DOMAIN alpha_stock |->
                     IntDiv(alpha_stock[j] * f,
                            alpha_total * trading_recs[j].open)]]

\* return_on_stock for every stock of the trading day
ReturnOnStock(trading_recs, stock_vector) ==
    [j \in DOMAIN stock_vector |->
        (trading_recs[j].close - trading_recs[j].open) * stock_vector[j]]

\* Mutant of ReturnsDay: the day's total is assigned, not accumulated, and
\* ends as the last stock's return.
ReturnsDayLastOnly(return_on_stock) ==
    IF return_on_stock = <<>> THEN 0 ELSE return_on_stock[Len(return_on_stock)]

\* returns_day: the accumulated return_on_stock
ReturnsDay(return_on_stock) == Sum(return_on_stock)

\* self.data[trading_day][j].returns = return_on_stock, for every j
WriteReturns(trading_recs, return_on_stock) ==
    [j \in DOMAIN trading_recs |->
        IF j \in DOMAIN return_on_stock
        THEN [trading_recs[j] EXCEPT !.returns = return_on_stock[j]]
        ELSE trading_recs[j]]

\* Mutant of DayAccounting: the balance is updated first, and the percentage
\* divides by the balance after the update.
DayAccountingAfter(rets, f, returns_day) ==
    [returns |-> Append(rets, Percent(returns_day, f + returns_day)),
     funds |-> f + returns_day]

\* The two statements that close a day's accounting: the percentage is
\* appended first, with the balance as it is, then the balance is updated.
DayAccounting(rets, f, returns_day) ==
    [returns |-> Append(rets, Percent(returns_day, f)), funds |-> f + returns_day]

\* The turnover series after a day: a dot product with the previous day's
\* vector once there is one.
NextTurnover(turn, stock_vector, old) ==
    IF old # None THEN Append(turn, Dot(stock_vector, old[1])) ELSE turn

\* Mutant of NextOld: the first day's vector is kept for good.
NextOldStale(old, stock_vector) == IF old = None THEN Some(stock_vector) ELSE old

\* stock_vector_old = stock_vector
NextOld(old, stock_vector) == Some(stock_vector)

\* Mutant of ResetTurnover: the series is cleared without its sentinel.
ResetTurnoverEmpty == <<>>

\* self.turnover = [0]
ResetTurnover == <<0>>

\* What a simulate() call left behind, as its caller sees it.
Outcome(raised) == [raised |-> raised, returns |-> returns, turnover |-> turnover]

\* ------------------------------------------------------------------ actions
Init ==
    /\ strategy \in Strategies
    /\ stock_list \in StockLists
    /\ data = EmptyData
    /\ funds = InitialFunds
    /\ turnover = <<0>>
    /\ returns = <<>>
    /\ pc = "idle"
    /\ days = <<>>
    /\ i = 0
    /\ stock_vector_old = None
    /\ error = "none"
    /\ op = "__init__"
    /\ pre_repair = None
    /\ vectors = <<>>
    /\ history = <<>>

\* construct_historical_data(): one provider response per stock of the list,
\* grouped by date, then verify_historical_data().  max() of an empty list
\* raises ValueError.  The dataset is built once: the call is taken on an
\* object that holds no data yet.
ConstructHistoricalData ==
    /\ pc = "idle"
    /\ data = EmptyData
    /\ \E response \in Responses(stock_list) :
          LET raw == Assemble(data, stock_list, response, 1)
          IN /\ pre_repair' = Some(raw)
             /\ IF raw = EmptyData
                THEN data' = raw /\ error' = "ValueError"
                ELSE data' = verify_historical_data(raw) /\ error' = "none"
    /\ op' = "construct_historical_data"
    /\ history' = <<>>
    /\ UNCHANGED <<strategy, stock_list, funds, turnover, returns, pc, days, i,
                   stock_vector_old, vectors>>

\* verify_historical_data() called on its own
VerifyHistoricalData ==
    /\ pc = "idle"
    /\ pre_repair' = Some(data)
    /\ IF data = EmptyData
       THEN data' = data /\ error' = "ValueError"
       ELSE data' = verify_historical_data(data) /\ error' = "none"
    /\ op' = "verify_historical_data"
    /\ history' = IF data' = data THEN history ELSE <<>>
    /\ UNCHANGED <<strategy, stock_list, funds, turnover, returns, pc, days, i,
                   stock_vector_old, vectors>>

\* simulate(), up to the day loop.  The model stops calling simulate() after
\* MaxRuns calls on a dataset or once the balance has left MaxFunds.
SimulateBegin ==
    /\ pc = "idle"
    /\ Len(history) < MaxRuns
    /\ Abs(funds) <= MaxFunds
    /\ turnover' = ResetTurnover
    /\ returns' = <<>>
    /\ stock_vector_old' = None
    /\ days' = Sorted(DOMAIN data)
    /\ i' = 1
    /\ pc' = "loop"
    /\ error' = "none"
    /\ op' = "simulate"
    /\ pre_repair' = None
    /\ vectors' = <<>>
    /\ UNCHANGED <<strategy, stock_list, data, funds, history>>

\* One pass of the day loop.  Every date of the dataset holds the same
\* number of records.  The division of the first quantity fails before
\* anything is written; the percentage fails when the balance is 0, after
\* the day's records were written.
SimulateDay ==
    /\ pc = "loop"
    /\ i < Len(days)
    /\ LET data_day == days[i]
           trading_day == days[i + 1]
           quantities ==
               StockVector(strategy, funds, data[data_day], data[trading_day])
           stock_vector == quantities.stock_vector
           return_on_stock == ReturnOnStock(data[trading_day], stock_vector)
           returns_day == ReturnsDay(return_on_stock)
           written == [data EXCEPT ![trading_day] =
                           WriteReturns(data[trading_day], return_on_stock)]
       IN IF quantities.raised
          THEN /\ pc' = "idle"
               /\ error' = "ZeroDivisionError"
               /\ history' = Append(history, Outcome(TRUE))
               /\ UNCHANGED <<data, funds, turnover, returns, i,
                              stock_vector_old, vectors>>
          ELSE IF funds = 0
          THEN /\ data' = written
               /\ pc' = "idle"
               /\ error' = "ZeroDivisionError"
               /\ history' = Append(history, Outcome(TRUE))
               /\ UNCHANGED <<funds, turnover, returns, i, stock_vector_old,
                              vectors>>
          ELSE /\ data' = written
               /\ returns' = DayAccounting(returns, funds, returns_day).returns
               /\ funds' = DayAccounting(returns, funds, returns_day).funds
               /\ turnover' = NextTurnover(turnover, stock_vector, stock_vector_old)
               /\ stock_vector_old' = NextOld(stock_vector_old, stock_vector)
               /\ vectors' = Append(vectors, stock_vector)
               /\ i' = i + 1
               /\ UNCHANGED <<pc, error, history>>
    /\ UNCHANGED <<strategy, stock_list, days, op, pre_repair>>

\* The day loop is over: simulate() returns.
SimulateReturn ==
    /\ pc = "loop"
    /\ i >= Len(days)
    /\ pc' = "idle"
    /\ history' = Append(history, Outcome(FALSE))
    /\ UNCHANGED <<strategy, stock_list, data, funds, turnover, returns, days, i,
                   stock_vector_old, error, op, pre_repair, vectors>>

Next ==
    \/ ConstructHistoricalData
    \/ VerifyHistoricalData
    \/ SimulateBegin
    \/ SimulateDay
    \/ SimulateReturn

Spec == Init /\ [][Next]_vars

\* ------------------------------------------------------------------ claims
NumDates == Cardinality(DOMAIN data)

\* every date of the dataset holds the same number of records
Aligned == \A d1, d2 \in DOMAIN data : Len(data[d1]) = Len(data[d2])

\* the scores of the records of date dt
Scores(dt) == [j \in DOMAIN data[dt] |-> alpha(strategy, data[dt][j])]

\* every date but the last is a data day
DataDays == {dt \in DOMAIN data : \E later \in DOMAIN data : later > dt}

\* a simulate() call has ended, by returning or by raising
SimulateEnded == op = "simulate" /\ pc = "idle"

\* this step processes a trading day to its end
DayProcessed == pc = "loop" /\ i' = i + 1

Last(s) == s[Len(s)]

\* C1: on N >= 2 dates of equal record counts, with a non-zero score sum on
\* every data day, simulate() ends with returns and turnover of length N-1
\* and turnover[0] = 0.
C1_SeriesLengths ==
    (/\ SimulateEnded
     /\ NumDates >= 2
     /\ Aligned
     /\ \A dt \in DataDays : Sum(Scores(dt)) # 0)
    => (/\ error = "none"
        /\ Len(returns) = NumDates - 1
        /\ Len(turnover) = NumDates - 1
        /\ turnover[1] = 0)

\* C2: two simulate() calls in a row on the same dataset, both returning,
\* leave the same returns and the same turnover.
C2_SecondCallIdentical ==
    \A k \in 1..(Len(history) - 1) :
        (~history[k].raised /\ ~history[k + 1].raised)
        => (/\ history[k + 1].returns = history[k].returns
            /\ history[k + 1].turnover = history[k].turnover)

\* C3: after verify_historical_data() on a non-empty mapping every retained
\* date holds the maximum record count observed before, every date that
\* held fewer records is gone, and a retained date's list is as it was.
C3_CoverageRepair ==
    (pre_repair # None /\ pre_repair[1] # EmptyData)
    => LET before == pre_repair[1]
           most == CHOOSE n \in 0..Len(stock_list) :
                       /\ \E dt \in DOMAIN before : Len(before[dt]) = n
                       /\ \A dt \in DOMAIN before : Len(before[dt]) <= n
       IN /\ DOMAIN data \subseteq DOMAIN before
          /\ \A dt \in DOMAIN data :
                Len(data[dt]) = most /\ data[dt] = before[dt]
          /\ \A dt \in DOMAIN before :
                Len(before[dt]) < most => dt \notin DOMAIN data

\* C3, witness: a repair that dropped one date and kept another.
C3_Witness ==
    /\ pre_repair # None
    /\ DOMAIN data # {}
    /\ DOMAIN pre_repair[1] \ DOMAIN data # {}

\* C4: every date of the assembled dataset holds exactly one record per
\* stock of stock_list, in the order of stock_list.
C4_OneRecordPerStock ==
    \A dt \in DOMAIN data :
        [j \in DOMAIN data[dt] |-> data[dt][j].stock] = stock_list

\* C5: a processed trading day adds to funds exactly the sum over the stocks
\* of (close - open) * quantity, and no other step changes funds.
C5_FundsConservation ==
    [][IF DayProcessed
       THEN LET recs == data[days[i + 1]]
                quantity == Last(vectors')
            IN funds' = funds + Sum([j \in DOMAIN recs |->
                                       (recs[j].close - recs[j].open) * quantity[j]])
       ELSE funds' = funds]_vars

\* C5, witness: a processed day that changed the balance.
C5_Witness == vectors # <<>> /\ funds # InitialFunds

\* C6: the entry appended to returns for a trading day is the day's total
\* realized return times 100 over the balance before the day's update.
C6_PercentOfFundsBefore ==
    [][DayProcessed
       => LET recs == data'[days[i + 1]]
              day_total == Sum([j \in DOMAIN recs |-> recs[j].returns])
          IN /\ Len(returns') = Len(returns) + 1
             /\ Last(returns').den > 0
             /\ Last(returns').num * (funds \div Last(returns').den)
                    = day_total * 100
             /\ funds % Last(returns').den = 0]_vars

\* C6, witness: a day processed with a non-zero return, so that the balance
\* before and the balance after differ.
C6_Witness == returns # <<>> /\ Last(returns).num # 0 /\ pc = "loop"

\* the loop is about to process a day whose data day scores are all 0
AllZeroDay ==
    /\ i \in 1..(Len(days) - 1)
    /\ data[days[i]] # <<>>
    /\ \A j \in DOMAIN data[days[i]] : alpha(strategy, data[days[i]][j]) = 0

Alternatives(recs) ==
    {alt \in [DOMAIN recs -> [stock : Stocks, open : {250, 500},
                              close : {250, 500}, returns : {0}]] :
        \A j \in DOMAIN recs :
            /\ alt[j].stock = recs[j].stock
            /\ <<alt[j].open, alt[j].close>> \in BarsOf(recs[j].stock)}

\* C9 as stated: the quantity vector of a trading day is the same whatever
\* the records of that trading day hold.
C9_TradingDayIrrelevant ==
    [][DayProcessed
       => \A alt \in Alternatives(data[days[i + 1]]) :
              StockVector(strategy, funds, data[days[i]], alt).stock_vector
                  = Last(vectors')]_vars

\* C9, amended: the quantity vector of a trading day is the same whatever
\* the records of that trading day hold besides their open prices.
C9_OnlyOpenMatters ==
    [][DayProcessed
       => \A alt \in Alternatives(data[days[i + 1]]) :
              (\A j \in DOMAIN alt : alt[j].open = data[days[i + 1]][j].open)
              => StockVector(strategy, funds, data[days[i]], alt).stock_vector
                     = Last(vectors')]_vars

\* C9, witness: a day was processed with non-zero quantities for a stock
\* (A) whose close can differ at the same open.
C9_Witness ==
    /\ vectors # <<>>
    /\ \E j \in DOMAIN stock_list : stock_list[j] = "A" /\ Last(vectors)[j] # 0

\* C10: turnover starts with the sentinel 0 and then holds, for every
\* processed day after the first, the dot product of that day's quantity
\* vector and the vector of the day processed just before it.
C10_TurnoverOfConsecutiveDays ==
    /\ turnover[1] = 0
    /\ Len(turnover) = (IF vectors = <<>> THEN 1 ELSE Len(vectors))
    /\ \A k \in 2..Len(vectors) : turnover[k] = Dot(vectors[k], vectors[k - 1])

\* C10, witness: three processed days, the third entry differing from the
\* dot product with the first day's vector.
C10_Witness ==
    /\ Len(vectors) >= 3
    /\ turnover[3] # Dot(vectors[3], vectors[1])

====
